---- MODULE Spec2Model ----
(***************************************************************************)
(* K-shortest enumeration (cobamp/algorithms/kshortest.py).                *)
(*                                                                         *)
(* The MILP problem held by KShortestEnumerator is modelled as a sequence  *)
(* of rows over solver variable indices.  The solver is external: a solve  *)
(* returns any minimum-size binary indicator assignment that satisfies the *)
(* rows, a populate returns any pool of distinct feasible assignments.     *)
(* Values are kept in units of 1e-6, so that the threshold eps = 1e-6 of   *)
(* __add_integer_cut is the integer Eps and the value 1.0 is One.          *)
(***************************************************************************)
EXTENDS Integers, Sequences, FiniteSets, TLC

\* ------------------------------------------------------------------ bounds
\* reactions (columns) of the linear systems explored
NumReactions == 2
\* largest size of the elementary modes that generate a system's fluxes
MaxModeSize == 2
\* largest size given to set_size_constraint, and the max_size given to
\* population_iterator
MaxSize == 2
\* the maximum_amount given to solution_iterator
MaxAmount == 2
\* largest pool a populate call returns
MaxPool == 2
\* rows that force_solutions may add before it is no longer called
MaxManualCuts == 1
\* solutions the direct calls may return between two resets
MaxReturned == 2
\* reactions of the toy network, and the size of its one elementary mode
ToyReactions == 4
ToyModeSize == 2
\* columns of the stoichiometric matrices given to InterventionProblem
MaxColumns == 3
\* constraints in a call of generate_target_matrix
MaxConstraints == 2
\* reactions of the networks with elementary modes of two sizes
RunReactions == 3
\* a maximum_amount that no run on these networks reaches by itself: more
\* than their flux supports
RunAmount == 4
\* the numbers used as bounds and deviations of constraints
BoundValues == {0, 2}
DeviationValues == {1}

\* ------------------------------------------------------- program constants
\* eps=1e-6 of __add_integer_cut, in units of 1e-6
Eps == 1
\* the value 1.0 (upper bound of a binary indicator), in units of 1e-6
One == 1000000
\* width of the indicator template: 5 helper variables, 6 rows per dvar
TemplateCols == 5
TemplateRows == 6

SIZE_CONSTRAINT == "KSH_SizeConstraint_"

VARIABLES
    model,            \* the linear system: [nr, rev, efp, modes]
    built,            \* TRUE when __init__ returned an enumerator
    dvar_mapping,     \* reaction -> sequence of positions in dvars (1 or 2)
    indicator_map,    \* dvar variable index -> indicator variable index
    efp_auxiliary_map,\* indicator index -> auxiliary variable index, or <<>>
    rows,             \* the constraints of the problem, in insertion order
    integer_cuts,     \* __integer_cuts: handles (row ids) of the cuts
    exclusion_cuts,   \* __exclusion_cuts
    sit,              \* the solution_iterator generator
    pit,              \* the population_iterator generator
    emitted,          \* solutions returned since the last reset, in order
    forced,           \* reaction sets given to force_solutions as solutions
    last,             \* the last call: operation, arguments, result, error
    num_rx            \* InterventionProblem.__num_rx (0: no such object)

vars == <<model, built, dvar_mapping, indicator_map, efp_auxiliary_map, rows,
          integer_cuts, exclusion_cuts, sit, pit, emitted, forced, last,
          num_rx>>

\* ------------------------------------------------------------ arithmetic
Abs(v) == IF v < 0 THEN -v ELSE v

RECURSIVE SumOver(_, _)
SumOver(S, f) ==
    IF S = {} THEN 0
    ELSE LET v == CHOOSE u \in S : TRUE IN f[v] + SumOver(S \ {v}, f)

RECURSIVE SeqOfSet(_)
\* the elements of a set of integers in increasing order
SeqOfSet(S) ==
    IF S = {} THEN <<>>
    ELSE LET m == CHOOSE u \in S : \A w \in S : u <= w
         IN <<m>> \o SeqOfSet(S \ {m})

Range(s) == {s[i] : i \in DOMAIN s}

\* ----------------------------------------------------- the linear system
Reactions == 0 .. NumReactions - 1

\* get_dvars(): one flux variable per irreversible reaction, a forward and
\* a backward one for the reversible reaction 0 (the backward column last)
NumDvars(ls) == ls.nr + (IF ls.rev THEN 1 ELSE 0)
Positions(ls) == 0 .. NumDvars(ls) - 1
Dvars(ls) == [k \in Positions(ls) |-> k]

\* get_dvar_mapping(): reaction -> position, or (forward, backward) pair;
\* a bare position is kept as a one-element sequence
DvarMapping(ls) ==
    [r \in 0 .. ls.nr - 1 |->
        IF r = 0 /\ ls.rev THEN <<0, ls.nr>> ELSE <<r>>]

IsPair(dvl) == Len(dvl) = 2

\* get_c_variable(): the threshold variable follows the flux variables
CVariable(ls) == NumDvars(ls)
\* len(self.model.model.variables) before the indicators are added
Offset(ls) == NumDvars(ls) + 1

\* supports (sets of dvar positions) of the flux vectors of the system:
\* the zero flux and every sum of elementary modes
RECURSIVE UnionAll(_)
UnionAll(F) ==
    IF F = {} THEN {}
    ELSE LET m == CHOOSE u \in F : TRUE IN m \cup UnionAll(F \ {m})

FluxSupports(ls) == {UnionAll(F) : F \in SUBSET ls.modes}

\* the systems explored: reaction 0 reversible or not, ordinary or pattern
\* system, the elementary modes being all the sets of sz dvars
LinearSystemsOf(rv) ==
    {[nr |-> NumReactions, rev |-> rv, efp |-> ef,
      modes |-> {m \in SUBSET (0 .. NumReactions - (IF rv THEN 0 ELSE 1)) :
                    Cardinality(m) = sz}] :
        ef \in BOOLEAN, sz \in 1 .. MaxModeSize}

LinearSystems == LinearSystemsOf(TRUE) \cup LinearSystemsOf(FALSE)

\* --------------------------------------------------------------- rows
\* a bound is the empty set (None) or a singleton
NoBound == {}
Bound(v) == {v}

Row(id, name, kind, coef, lb, ub, cond) ==
    [id |-> id, name |-> name, kind |-> kind, coef |-> coef,
     lb |-> lb, ub |-> ub, cond |-> cond]

RowVars(row) == DOMAIN row.coef
Ones(S) == [v \in S |-> 1]

RowIds(rs) == {rs[i].id : i \in DOMAIN rs}
\* a handle for a new constraint object: the lowest one not in use
FreshId(rs) == CHOOSE n \in 1 .. Len(rs) + 1 : n \notin RowIds(rs)

\* add_rows_to_model for one row: returns the rows with the new one appended
AddRow(rs, name, kind, coef, lb, ub, cond) ==
    Append(rs, Row(FreshId(rs), name, kind, coef, lb, ub, cond))

\* model.remove(handles)
RemoveRows(rs, handles) == SelectSeq(rs, LAMBDA r : r.id \notin handles)

HasName(rs, name) == \E i \in DOMAIN rs : rs[i].name = name

\* ------------------------------------------------ the indicator encoding
\* self.__ivars: the indicator of the k-th dvar
IVar(ls, k) == (k * TemplateCols) + Offset(ls)
IVars(ls) == {IVar(ls, k) : k \in Positions(ls)}

\* indicator_map = dict(zip(dvars, self.__ivars))
IndicatorMap(ls) ==
    [d \in Range(Dvars(ls)) |->
        IVar(ls, CHOOSE k \in Positions(ls) : Dvars(ls)[k] = d)]

\* the helper j (0..4: i, a, b, c, d) of the k-th dvar
Helper(ls, k, j) == IVar(ls, k) + j

\* a template whose six rows carry no bounds and no condition
TemplateRowUnbounded(ls, k, t) ==
    [coef |-> (Helper(ls, k, 0) :> 1), lb |-> NoBound, ub |-> NoBound,
     cond |-> {}]

\* row t (0..5) of the template for the k-th dvar: template_matrix on the
\* helpers, diag on the dvar (rows 4, 5), crow on the threshold (row 5),
\* bounds template_blb / template_bub, rows 4 and 5 conditioned on b and d
TemplateRow(ls, k, t) ==
    LET h(j) == Helper(ls, k, j)
        dv == Dvars(ls)[k]
    IN CASE t = 0 -> [coef |-> (h(0) :> 1) @@ (h(1) :> 1),
                      lb |-> Bound(1), ub |-> Bound(1), cond |-> {}]
         [] t = 1 -> [coef |-> (h(1) :> -1) @@ (h(2) :> 1),
                      lb |-> Bound(0), ub |-> NoBound, cond |-> {}]
         [] t = 2 -> [coef |-> (h(0) :> -1) @@ (h(3) :> 1),
                      lb |-> Bound(0), ub |-> Bound(0), cond |-> {}]
         [] t = 3 -> [coef |-> (h(3) :> -1) @@ (h(4) :> 1),
                      lb |-> Bound(0), ub |-> NoBound, cond |-> {}]
         [] t = 4 -> [coef |-> (dv :> 1),
                      lb |-> Bound(0), ub |-> Bound(0),
                      cond |-> {<<h(2), 1>>}]
         [] t = 5 -> [coef |-> (dv :> 1) @@ (CVariable(ls) :> -1),
                      lb |-> Bound(0), ub |-> NoBound,
                      cond |-> {<<h(4), 1>>}]

\* __add_kshortest_indicators: six rows per dvar, in dvar order
IndicatorRows(ls) ==
    [n \in 1 .. TemplateRows * NumDvars(ls) |->
        LET k == (n - 1) \div TemplateRows
            t == (n - 1) % TemplateRows
            tr == TemplateRow(ls, k, t)
        IN Row(n, "", "indicator", tr.coef, tr.lb, tr.ub, tr.cond)]

\* the indicators of a dvar group (a reaction's one or two dvars)
IndicatorIdx(ls, imap, dvl) == {imap[Dvars(ls)[dvl[j]]] : j \in DOMAIN dvl}

\* one exclusivity row: the indicators of the pair sum to at most 1
ExclusivityUb == Bound(1)

RECURSIVE ExclusivityFrom(_, _, _, _)
\* __add_exclusivity_constraints: one row per reaction mapped to a pair
ExclusivityFrom(rs, ls, imap, r) ==
    IF r >= ls.nr THEN rs
    ELSE LET dvl == DvarMapping(ls)[r]
             nxt == IF IsPair(dvl)
                    THEN AddRow(rs, "", "exclusivity",
                                Ones(IndicatorIdx(ls, imap, dvl)),
                                NoBound, ExclusivityUb, {})
                    ELSE rs
         IN ExclusivityFrom(nxt, ls, imap, r + 1)

\* a constructor that adds no exclusivity row
NoExclusivityConstraints(rs, ls, imap) == rs

AddExclusivityConstraints(rs, ls, imap) == ExclusivityFrom(rs, ls, imap, 0)

\* __add_efp_auxiliary_constraints builds the name 'hv' + ind from the
\* integer ind: ''.join raises TypeError as soon as there is an indicator
EfpAuxiliaryRaises(ls) == IVars(ls) # {}

\* the auxiliary variable named for indicator ind, as an index after all
\* the variables added before it
AuxVar(ls, ind) ==
    Offset(ls) + (TemplateCols * NumDvars(ls))
        + ((ind - Offset(ls)) \div TemplateCols)
EfpAuxiliaryMap(ls) == [ind \in IVars(ls) |-> AuxVar(ls, ind)]

RECURSIVE Milp2From(_, _, _)
\* MILP2: one row bv - hv >= 0 per indicator, in indicator order
Milp2From(rs, ls, inds) ==
    IF inds = <<>> THEN rs
    ELSE Milp2From(AddRow(rs, "MILP2", "efp",
                          (inds[1] :> 1) @@ (AuxVar(ls, inds[1]) :> -1),
                          Bound(0), NoBound, {}),
                   ls, Tail(inds))

\* the rows __add_efp_auxiliary_constraints is written to add: MILP2, then
\* MILP4 (the auxiliary variables sum to at least 1)
AddEfpAuxiliaryConstraints(rs, ls) ==
    AddRow(Milp2From(rs, ls, SeqOfSet(IVars(ls))), "MILP4", "efp",
           Ones({AuxVar(ls, ind) : ind \in IVars(ls)}), Bound(1), NoBound, {})

\* ------------------------------------------------------- size constraint
SizeUpper(start_at, equal) == IF equal THEN Bound(start_at) ELSE NoBound

\* the branch of set_size_constraint that adds the row and names it
AddSizeRow(rs, ivs, start_at, equal) ==
    AddRow(rs, SIZE_CONSTRAINT, "size", Ones(ivs), Bound(start_at),
           SizeUpper(start_at, equal), {})

\* the branch that sets the bounds of the row found by name
UpdateSizeRow(rs, ivs, start_at, equal) ==
    [i \in DOMAIN rs |->
        IF rs[i].name = SIZE_CONSTRAINT
        THEN [rs[i] EXCEPT !.lb = Bound(start_at),
                           !.ub = SizeUpper(start_at, equal)]
        ELSE rs[i]]

\* a set_size_constraint that does not look the row up by name
set_size_constraint_readd(rs, ivs, start_at, equal) ==
    AddSizeRow(rs, ivs, start_at, equal)

set_size_constraint(rs, ivs, start_at, equal) ==
    IF HasName(rs, SIZE_CONSTRAINT)
    THEN UpdateSizeRow(rs, ivs, start_at, equal)
    ELSE AddSizeRow(rs, ivs, start_at, equal)

\* ---------------------------------------------------------- integer cuts
\* groups taken as active from eps on, not above eps
ActiveGroupsFromEps(ls, dm, imap, value_map) ==
    {r \in DOMAIN dm :
        SumOver(IndicatorIdx(ls, imap, dm[r]),
                [i \in DOMAIN value_map |-> Abs(value_map[i])]) >= Eps}

\* the dvar groups whose summed absolute indicator value exceeds eps
ActiveGroups(ls, dm, imap, value_map) ==
    {r \in DOMAIN dm :
        SumOver(IndicatorIdx(ls, imap, dm[r]),
                [i \in DOMAIN value_map |-> Abs(value_map[i])]) > Eps}

\* cut_vars holding only the indicators that are themselves active
CutVarsActiveOnly(ls, dm, imap, auxmap, value_map, efp_cut) ==
    {i \in DOMAIN value_map : Abs(value_map[i]) > Eps}

\* cut_vars: the indicators of the active groups and, for a pattern
\* problem, their auxiliary variables
CutVars(ls, dm, imap, auxmap, value_map, efp_cut) ==
    LET inds == UNION {IndicatorIdx(ls, imap, dm[r]) :
                          r \in ActiveGroups(ls, dm, imap, value_map)}
    IN inds \cup (IF efp_cut THEN {auxmap[k] : k \in inds} ELSE {})

\* a cut whose right-hand side forgets the length override
CutRhsWithoutOverride(cut_length, length_override, efp_cut) == cut_length

\* rhs_value = cut_length - (length_override * int(not efp_cut))
CutRhs(cut_length, length_override, efp_cut) ==
    cut_length - (length_override * (IF efp_cut THEN 0 ELSE 1))

CutLower(rhs_value, equality) == IF equality THEN Bound(rhs_value) ELSE NoBound

\* __add_integer_cut on p = [rows, cuts]: appends the row and its handle
add_integer_cut(p, ls, dm, imap, auxmap, value_map, efp_cut, equality, length_override) ==
    LET cut_length == Cardinality(ActiveGroups(ls, dm, imap, value_map))
        cut_vars == CutVars(ls, dm, imap, auxmap, value_map, efp_cut)
        rhs_value == CutRhs(cut_length, length_override, efp_cut)
        rs == AddRow(p.rows, "", "cut", Ones(cut_vars),
                     CutLower(rhs_value, equality), Bound(rhs_value), {})
    IN [rows |-> rs, cuts |-> Append(p.cuts, rs[Len(rs)].id)]

\* a reset that removes the most recent cut only
ResetRemovesLast(cuts) == IF cuts = <<>> THEN {} ELSE {cuts[Len(cuts)]}

\* the rows reset_enumerator_state removes: those in __integer_cuts
ResetRemoves(cuts) == Range(cuts)

\* reset_enumerator_state on p = [rows, cuts]
reset_enumerator_state(p, ivs) ==
    [rows |-> set_size_constraint(RemoveRows(p.rows, ResetRemoves(p.cuts)),
                                  ivs, 1, FALSE),
     cuts |-> <<>>]

\* ------------------------------------------------------- the enumerator
\* the rows after __add_kshortest_indicators and, unless the system is a
\* pattern system, __add_exclusivity_constraints
BaseRows(ls) ==
    IF ~ls.efp
    THEN AddExclusivityConstraints(IndicatorRows(ls), ls, IndicatorMap(ls))
    ELSE IndicatorRows(ls)

\* the rows when __init__ returns: set_size_constraint(1) adds the size row
FreshRows(ls) == set_size_constraint(BaseRows(ls), IVars(ls), 1, FALSE)

\* __init__ ends with an exception on a pattern system
InitRaises(ls) == ls.efp /\ EfpAuxiliaryRaises(ls)

\* ------------------------------------------------------------ the solver
\* KShortestSolution: the value map (indicator entries) and the status
Solution(x, status) == [x |-> x, status |-> status]
var_values(sol) == sol.x

\* the binary assignment whose active indicators are those of support s
ValueMapOf(ls, s) ==
    [v \in IVars(ls) |->
        IF \E k \in s : IVar(ls, k) = v THEN One ELSE 0]

ActiveIndicators(x) == {v \in DOMAIN x : Abs(x[v]) > Eps}

\* the reactions with an active indicator in one of their dvars
ActiveReactions(ls, dm, imap, x) ==
    {r \in DOMAIN dm : IndicatorIdx(ls, imap, dm[r]) \cap ActiveIndicators(x) # {}}

\* lb <= sum(coef * x) <= ub, the row bounds being in units of 1.0
RowSat(row, x) ==
    LET s == SumOver(RowVars(row),
                     [v \in RowVars(row) |-> row.coef[v] * x[v]])
    IN /\ \A b \in row.lb : b * One <= s
       /\ \A b \in row.ub : s <= b * One

\* the indicator assignments the problem admits: a flux support of the
\* system (the encoding rows tie indicators to fluxes) that satisfies every
\* other row
Feasible(ls, rs) ==
    {x \in {ValueMapOf(ls, s) : s \in FluxSupports(ls)} :
        \A i \in DOMAIN rs : rs[i].kind # "indicator" => RowSat(rs[i], x)}

\* a solver that returns any feasible assignment
AnyFeasible(F) == F

\* __set_objective: minimise the sum of the indicators
Objective(x) == SumOver(DOMAIN x, x)
Optima(F) == {x \in F : \A y \in F : Objective(x) <= Objective(y)}

\* what optimizer.optimize() can do in __optimize: return an optimal
\* solution, return with another status (infeasible when the problem
\* admits nothing), or raise
SolverOptimize(ls, rs) ==
    {[solver |-> "optimal", x |-> <<x>>] : x \in Optima(Feasible(ls, rs))}
    \cup {[solver |-> IF Feasible(ls, rs) = {} THEN "infeasible"
                      ELSE "nonoptimal",
           x |-> <<>>],
          [solver |-> "exception", x |-> <<>>]}

\* __optimize: a KShortestSolution when the status is 'optimal'; None
\* (out empty) for any other status and, the exception being printed,
\* when the solver raises
OptimizeOutcomes(ls, rs) ==
    {[solver |-> o.solver,
      out |-> IF o.solver = "optimal"
              THEN <<Solution(o.x[1], "optimal")>> ELSE <<>>] :
        o \in SolverOptimize(ls, rs)}

\* position of an assignment in the pool order
Code(ls, x) ==
    SumOver(Positions(ls),
            [k \in Positions(ls) |-> IF x[IVar(ls, k)] > Eps THEN 2 ^ k ELSE 0])

PoolSeq(ls, S) ==
    LET cs == SeqOfSet({Code(ls, x) : x \in S})
    IN [i \in DOMAIN cs |->
           Solution(CHOOSE x \in S : Code(ls, x) = cs[i], "None")]

\* what optimizer.populate() can give __populate: a pool of distinct
\* feasible assignments, or a solver error
PopulateOutcomes(ls, rs) ==
    {[solver |-> "pool", out |-> PoolSeq(ls, S)] :
        S \in {T \in SUBSET Feasible(ls, rs) : Cardinality(T) <= MaxPool}}
    \cup {[solver |-> "error", out |-> <<>>]}

\* length_override=1, the default of __add_integer_cut
DefaultLengthOverride == 1

\* a cut for a returned solution built with length_override=0
ExcludeReturnedOverride0(p, ls, dm, imap, auxmap, sol) ==
    add_integer_cut(p, ls, dm, imap, auxmap, var_values(sol), ls.efp, FALSE, 0)

\* the cut get_single_solution and __populate add for a solution
ExcludeReturned(p, ls, dm, imap, auxmap, sol) ==
    add_integer_cut(p, ls, dm, imap, auxmap, var_values(sol), ls.efp, FALSE,
                    DefaultLengthOverride)

RECURSIVE CutAll(_, _, _, _, _, _, _)
\* for sol in sols: self.__add_integer_cut(...)
CutAll(p, ls, dm, imap, auxmap, sols, i) ==
    IF i > Len(sols) THEN p
    ELSE CutAll(ExcludeReturned(p, ls, dm, imap, auxmap, sols[i]),
                ls, dm, imap, auxmap, sols, i + 1)

\* ------------------------------------------------------------ __add_cuts
\* def __add_cuts(self, sols, length_override, equality)
AddCutsParams == {"sols", "length_override", "equality"}
\* exclude_solutions: self.__add_cuts(sols, length_override=0)
ExcludePasses == {"sols", "length_override"}
\* force_solutions: self.__add_cuts(sols, length_override=0, equality=True)
ForcePasses == {"sols", "length_override", "equality"}
\* a call that leaves a required parameter out raises TypeError
CallRaises(passed) == AddCutsParams \ passed # {}

\* the indicators the tuple branch of __add_cuts puts in the row:
\* ivars = [self.indicator_map[k] for k in self.__dvars]
RawCutVars(ls, imap, sol) == {imap[Dvars(ls)[k]] : k \in Positions(ls)}
\* rhs = [len(sol) - 1]
RawCutRhs(sol) == Len(sol) - 1
\* names = ['exclusion_cuts' + str(len(self.__exclusion_cuts))]
RawCutName(excl) == IF Len(excl) = 0 THEN "exclusion_cuts0" ELSE "exclusion_cutsN"

\* the tuple branch on p = [rows, cuts]: sense 'L' whatever equality is;
\* the row is recorded in no list
AddRawCut(p, ls, imap, excl, sol) ==
    [rows |-> AddRow(p.rows, RawCutName(excl), "raw",
                     Ones(RawCutVars(ls, imap, sol)), NoBound,
                     Bound(RawCutRhs(sol)), {}),
     cuts |-> p.cuts]

\* the solution branch: __add_integer_cut with the caller's arguments
AddSolutionCut(p, ls, dm, imap, auxmap, sol, length_override, equality) ==
    add_integer_cut(p, ls, dm, imap, auxmap, var_values(sol), ls.efp,
                    equality, length_override)

\* an argument of exclude_solutions / force_solutions: a list with one
\* KShortestSolution (sols) or with one raw tuple of reactions (raw)
\* the KShortestSolution objects given are those a first solve on the
\* system returns
SolutionArgs(ls) == Optima(Feasible(ls, FreshRows(ls)))
RawArgs == {SeqOfSet(S) : S \in (SUBSET Reactions) \ {{}}}
\* exclude_solutions fails before it reads its argument: one solution
ExcludeArgs(ls) ==
    {x \in SolutionArgs(ls) :
        \A y \in SolutionArgs(ls) : Code(ls, x) <= Code(ls, y)}

\* ------------------------------------------------------------ the state
NoCall ==
    [op |-> "", raised |-> "none", solver |-> "", out |-> <<>>,
     sols |-> <<>>, raw |-> <<>>, k |-> 0, equal |-> FALSE, efp |-> FALSE]

\* a generator: its position, its counter i, its argument and, for the
\* solution iterator, the local variable result
NoIterator == [pc |-> "none", i |-> 0, limit |-> 0, result |-> <<>>]

Problem == [rows |-> rows, cuts |-> integer_cuts]

\* the caller holds no generator: direct calls on the enumerator are made
\* between enumeration runs, not while one is suspended
Idle == sit.pc = "none" /\ pit.pc = "none"

\* KShortestEnumerator(linear_system) on each linear system
Init ==
    \E ls \in LinearSystems :
        /\ model = ls
        /\ built = ~InitRaises(ls)
        /\ dvar_mapping = DvarMapping(ls)
        /\ indicator_map = IndicatorMap(ls)
        /\ efp_auxiliary_map = <<>>
        /\ rows = IF InitRaises(ls) THEN BaseRows(ls) ELSE FreshRows(ls)
        /\ integer_cuts = <<>>
        /\ exclusion_cuts = <<>>
        /\ sit = NoIterator
        /\ pit = NoIterator
        /\ emitted = <<>>
        /\ forced = {}
        /\ num_rx = 0
        /\ last = [NoCall EXCEPT !.op = "__init__",
                                 !.raised = IF InitRaises(ls) THEN "TypeError"
                                            ELSE "none"]

Fixed == <<model, built, dvar_mapping, indicator_map, efp_auxiliary_map,
           exclusion_cuts, num_rx>>

\* ------------------------------------------------------ public operations
\* set_size_constraint(start_at, equal)
SetSizeConstraint(k, equal) ==
    /\ built
    /\ Idle
    /\ rows' = set_size_constraint(rows, IVars(model), k, equal)
    /\ last' = [NoCall EXCEPT !.op = "set_size_constraint", !.k = k,
                              !.equal = equal]
    /\ UNCHANGED <<Fixed, integer_cuts, sit, pit, emitted, forced>>

\* get_single_solution: raise Exception('Solution is empty')
SolutionIsEmpty == "Exception"

\* get_single_solution(): __optimize, then the cut, or 'Solution is empty'
GetSingleSolution ==
    /\ built
    /\ Idle
    /\ Len(emitted) < MaxReturned
    /\ \E o \in OptimizeOutcomes(model, rows) :
        IF o.out = <<>>
        THEN /\ last' = [NoCall EXCEPT !.op = "get_single_solution",
                                       !.raised = SolutionIsEmpty,
                                       !.solver = o.solver]
             /\ UNCHANGED <<rows, integer_cuts, emitted>>
        ELSE LET p == ExcludeReturned(Problem, model, dvar_mapping,
                                      indicator_map, efp_auxiliary_map,
                                      o.out[1])
             IN /\ rows' = p.rows
                /\ integer_cuts' = p.cuts
                /\ emitted' = emitted \o o.out
                /\ last' = [NoCall EXCEPT !.op = "get_single_solution",
                                          !.solver = o.solver, !.out = o.out]
    /\ UNCHANGED <<Fixed, sit, pit, forced>>

\* __populate: except Exception as e: raise e
PopulateError == "Exception"

\* populate_current_size(): __populate, which cuts every pool entry
PopulateCurrentSize ==
    /\ built
    /\ Idle
    /\ Len(emitted) < MaxReturned
    /\ \E o \in PopulateOutcomes(model, rows) :
        IF o.solver = "error"
        THEN /\ last' = [NoCall EXCEPT !.op = "populate_current_size",
                                       !.raised = PopulateError,
                                       !.solver = o.solver]
             /\ UNCHANGED <<rows, integer_cuts, emitted>>
        ELSE LET p == CutAll(Problem, model, dvar_mapping, indicator_map,
                             efp_auxiliary_map, o.out, 1)
             IN /\ rows' = p.rows
                /\ integer_cuts' = p.cuts
                /\ emitted' = emitted \o o.out
                /\ last' = [NoCall EXCEPT !.op = "populate_current_size",
                                          !.solver = o.solver, !.out = o.out]
    /\ UNCHANGED <<Fixed, sit, pit, forced>>

\* reset_enumerator_state()
ResetEnumeratorState ==
    /\ built
    /\ Idle
    /\ LET p == reset_enumerator_state(Problem, IVars(model))
       IN /\ rows' = p.rows
          /\ integer_cuts' = p.cuts
    /\ emitted' = <<>>
    /\ forced' = {}
    /\ last' = [NoCall EXCEPT !.op = "reset_enumerator_state"]
    /\ UNCHANGED <<Fixed, sit, pit>>

\* exclude_solutions(sols): the call of __add_cuts leaves equality out
ExcludeSolutions ==
    /\ built
    /\ Idle
    /\ \E arg \in {[sols |-> <<Solution(x, "optimal")>>, raw |-> <<>>] :
                      x \in ExcludeArgs(model)}
                  \cup {[sols |-> <<>>, raw |-> <<<<0>>>>]} :
        /\ CallRaises(ExcludePasses)
        /\ last' = [NoCall EXCEPT !.op = "exclude_solutions",
                                  !.raised = "TypeError",
                                  !.sols = arg.sols, !.raw = arg.raw]
    /\ UNCHANGED <<Fixed, rows, integer_cuts, sit, pit, emitted, forced>>

\* rows that force_solutions added and that are still in the problem
ManualRows(rs) ==
    Cardinality({i \in DOMAIN rs :
                    rs[i].kind = "raw" \/ (rs[i].kind = "cut" /\ rs[i].lb # {})})

\* force_solutions([S]) with a KShortestSolution S
ForceSolution ==
    /\ built
    /\ Idle
    /\ ~CallRaises(ForcePasses)
    /\ ManualRows(rows) < MaxManualCuts
    /\ Cardinality(forced) < MaxManualCuts
    /\ \E x \in SolutionArgs(model) :
        LET S == Solution(x, "optimal")
            p == AddSolutionCut(Problem, model, dvar_mapping, indicator_map,
                                efp_auxiliary_map, S, 0, TRUE)
        IN /\ rows' = p.rows
           /\ integer_cuts' = p.cuts
           /\ forced' = forced \cup {ActiveReactions(model, dvar_mapping,
                                                     indicator_map, x)}
           /\ last' = [NoCall EXCEPT !.op = "force_solutions",
                                     !.sols = <<S>>, !.equal = TRUE]
    /\ UNCHANGED <<Fixed, sit, pit, emitted>>

\* force_solutions([R]) with a raw tuple R of reactions
ForceRaw ==
    /\ built
    /\ Idle
    /\ ~CallRaises(ForcePasses)
    /\ ManualRows(rows) < MaxManualCuts
    /\ \E R \in RawArgs :
        LET p == AddRawCut(Problem, model, indicator_map, exclusion_cuts, R)
        IN /\ rows' = p.rows
           /\ integer_cuts' = p.cuts
           /\ last' = [NoCall EXCEPT !.op = "force_solutions",
                                     !.raw = <<R>>, !.equal = TRUE]
    /\ UNCHANGED <<Fixed, sit, pit, emitted, forced>>

\* ------------------------------------------------------ solution_iterator
\* calling solution_iterator(maximum_amount) only creates the generator
SolutionIteratorCreate(maximum_amount) ==
    /\ built
    /\ sit.pc \in {"none", "done"}
    /\ sit' = [pc |-> "created", i |-> 0, limit |-> maximum_amount,
              result |-> <<>>]
    /\ last' = [NoCall EXCEPT !.op = "solution_iterator", !.k = maximum_amount]
    /\ UNCHANGED <<Fixed, rows, integer_cuts, pit, emitted, forced>>

\* a loop body that lets the exception of get_single_solution through
SolutionIteratorNoExcept(e) == e

\* except Exception as e: print(...); failed = True -- what leaves the
\* generator when get_single_solution raises e
SolutionIteratorExcept(e) == "none"

\* a loop that makes one pass more
LoopContinuesAtLimit(i, maximum_amount) == i <= maximum_amount

\* while not failed and i < maximum_amount (failed is False here)
LoopContinues(i, maximum_amount) == i < maximum_amount

\* one pass of: while not failed and i < maximum_amount, from problem p,
\* counter i and the solutions em returned since the last reset
SolutionIteratorLoop(p, i, em) ==
    IF ~LoopContinues(i, sit.limit)
    THEN /\ sit' = [sit EXCEPT !.pc = "done", !.i = 0, !.result = <<>>]
         /\ rows' = p.rows
         /\ integer_cuts' = p.cuts
         /\ emitted' = em
         /\ last' = [NoCall EXCEPT !.op = "solution_iterator.next"]
    ELSE \E o \in OptimizeOutcomes(model, p.rows) :
        IF o.out = <<>>
        THEN /\ sit' = [sit EXCEPT !.pc = "done", !.i = 0, !.result = <<>>]
             /\ rows' = p.rows
             /\ integer_cuts' = p.cuts
             /\ emitted' = em
             /\ last' = [NoCall EXCEPT
                            !.op = "solution_iterator.next",
                            !.raised = SolutionIteratorExcept(SolutionIsEmpty),
                            !.solver = o.solver]
        ELSE LET q == ExcludeReturned(p, model, dvar_mapping, indicator_map,
                                      efp_auxiliary_map, o.out[1])
             IN /\ sit' = [sit EXCEPT !.pc = "running", !.i = i + 1,
                                   !.result = o.out]
                /\ rows' = q.rows
                /\ integer_cuts' = q.cuts
                /\ emitted' = em \o o.out
                /\ last' = [NoCall EXCEPT !.op = "solution_iterator.next",
                                          !.solver = o.solver, !.out = o.out]

\* a generator body that starts without reset_enumerator_state()
SolutionIteratorStartNoReset(p, ivs) ==
    [rows |-> set_size_constraint(p.rows, ivs, 1, FALSE), cuts |-> p.cuts]

\* the problem after the first lines of the generator body:
\* reset_enumerator_state(), set_size_constraint(1)
SolutionIteratorStart(p, ivs) ==
    LET q == reset_enumerator_state(p, ivs)
    IN [rows |-> set_size_constraint(q.rows, ivs, 1, FALSE), cuts |-> q.cuts]

\* next() on the solution iterator
SolutionIteratorNext ==
    /\ built
    /\ sit.pc \in {"created", "running"}
    /\ IF sit.pc = "created"
       THEN SolutionIteratorLoop(SolutionIteratorStart(Problem, IVars(model)),
                                 0, <<>>)
       ELSE SolutionIteratorLoop(Problem, sit.i, emitted)
    /\ UNCHANGED <<Fixed, pit, forced>>

\* the caller drops the finished generator
SolutionIteratorDiscard ==
    /\ sit.pc = "done"
    /\ sit' = NoIterator
    /\ UNCHANGED <<Fixed, rows, integer_cuts, pit, emitted, forced, last>>

\* ---------------------------------------------------- population_iterator
PopulationIteratorCreate(max_size) ==
    /\ built
    /\ pit.pc \in {"none", "done"}
    /\ pit' = [pc |-> "created", i |-> 0, limit |-> max_size,
              result |-> <<>>]
    /\ last' = [NoCall EXCEPT !.op = "population_iterator", !.k = max_size]
    /\ UNCHANGED <<Fixed, rows, integer_cuts, sit, emitted, forced>>

\* a population step that asks for size i or more
PopulationSizeAtLeast(rs, ivs, i) == set_size_constraint(rs, ivs, i, FALSE)

\* the size row population_iterator sets for size i
PopulationSize(rs, ivs, i) == set_size_constraint(rs, ivs, i, TRUE)

\* a loop body that swallows the exception of populate_current_size
PopulationIteratorSwallows(e) == "none"

\* except Exception as e: print(...); raise e -- what leaves the generator
\* when populate_current_size raises e
PopulationIteratorExcept(e) == e

\* one pass of: for i in range(1, max_size + 1), for size i from problem p
PopulationIteratorLoop(p, i, em) ==
    IF i > pit.limit
    THEN /\ pit' = [pit EXCEPT !.pc = "done", !.i = 0]
         /\ rows' = p.rows
         /\ integer_cuts' = p.cuts
         /\ emitted' = em
         /\ last' = [NoCall EXCEPT !.op = "population_iterator.next"]
    ELSE LET sized == [rows |-> PopulationSize(p.rows, IVars(model), i),
                       cuts |-> p.cuts]
         IN \E o \in PopulateOutcomes(model, sized.rows) :
            IF o.solver = "error"
            THEN /\ pit' = [pit EXCEPT !.pc = "done", !.i = 0]
                 /\ rows' = sized.rows
                 /\ integer_cuts' = sized.cuts
                 /\ emitted' = em
                 /\ last' = [NoCall EXCEPT
                                !.op = "population_iterator.next",
                                !.raised = PopulationIteratorExcept(PopulateError),
                                !.solver = o.solver, !.k = i]
            ELSE LET q == CutAll(sized, model, dvar_mapping, indicator_map,
                                 efp_auxiliary_map, o.out, 1)
                 IN /\ pit' = [pit EXCEPT !.pc = "running", !.i = i]
                    /\ rows' = q.rows
                    /\ integer_cuts' = q.cuts
                    /\ emitted' = em \o o.out
                    /\ last' = [NoCall EXCEPT
                                   !.op = "population_iterator.next",
                                   !.solver = o.solver, !.out = o.out,
                                   !.k = i]

\* a loop that steps over a size
SkipSize(i) == i + 2

\* for i in range(1, max_size + 1): the size after size i
NextSize(i) == i + 1

\* next() on the population iterator
PopulationIteratorNext ==
    /\ built
    /\ pit.pc \in {"created", "running"}
    /\ IF pit.pc = "created"
       THEN PopulationIteratorLoop(
                reset_enumerator_state(Problem, IVars(model)), 1, <<>>)
       ELSE PopulationIteratorLoop(Problem, NextSize(pit.i), emitted)
    /\ UNCHANGED <<Fixed, sit, forced>>

PopulationIteratorDiscard ==
    /\ pit.pc = "done"
    /\ pit' = NoIterator
    /\ UNCHANGED <<Fixed, rows, integer_cuts, sit, emitted, forced, last>>

\* ------------------------------------------------- KShortestEFMAlgorithm
\* the forced_sets given to get_enumerator and enumerate: None, a list
\* with one KShortestSolution, or a list with one raw tuple
ForcedSets(ls) ==
    {[kind |-> "none", x |-> ValueMapOf(ls, {}), R |-> <<>>]}
    \cup {[kind |-> "sol", x |-> x, R |-> <<>>] : x \in SolutionArgs(ls)}
    \cup {[kind |-> "raw", x |-> ValueMapOf(ls, {}), R |-> R] :
             R \in RawArgs}

\* __prepare after the exclusion: force_solutions(forced_sets) on the new
\* enumerator, unless forced_sets is None
Prepare(fresh, fs) ==
    CASE fs.kind = "none" -> fresh
      [] fs.kind = "sol" ->
            AddSolutionCut(fresh, model, dvar_mapping, indicator_map,
                           efp_auxiliary_map, Solution(fs.x, "optimal"),
                           0, TRUE)
      [] fs.kind = "raw" ->
            AddRawCut(fresh, model, indicator_map, exclusion_cuts, fs.R)

\* the reaction sets force_solutions was given as KShortestSolution
ForcedReactions(fs) ==
    IF fs.kind = "sol"
    THEN {ActiveReactions(model, dvar_mapping, indicator_map, fs.x)}
    ELSE {}

\* get_enumerator(linear_system, excluded_sets, forced_sets): __prepare
\* builds a new enumerator, excludes, forces, then creates the iterator
\* for the configured method with its limit
GetEnumerator(method, limit) ==
    /\ built
    /\ last.op = "__init__"
    /\ LET fresh == [rows |-> FreshRows(model), cuts |-> <<>>]
       IN \E excluded \in BOOLEAN, fs \in ForcedSets(model) :
            IF excluded /\ CallRaises(ExcludePasses)
            THEN /\ rows' = fresh.rows
                 /\ integer_cuts' = fresh.cuts
                 /\ forced' = {}
                 /\ sit' = NoIterator
                 /\ pit' = NoIterator
                 /\ last' = [NoCall EXCEPT !.op = "get_enumerator",
                                           !.raised = "TypeError"]
            ELSE LET p == Prepare(fresh, fs)
                     it == [pc |-> "created", i |-> 0, limit |-> limit, result |-> <<>>]
                 IN /\ rows' = p.rows
                    /\ integer_cuts' = p.cuts
                    /\ forced' = ForcedReactions(fs)
                    /\ sit' = IF method = "ITERATE" THEN it ELSE NoIterator
                    /\ pit' = IF method = "POPULATE" THEN it ELSE NoIterator
                    /\ last' = [NoCall EXCEPT
                                   !.op = "get_enumerator",
                                   !.sols = IF fs.kind = "sol"
                                            THEN <<Solution(fs.x, "optimal")>>
                                            ELSE <<>>,
                                   !.raw = IF fs.kind = "raw" THEN <<fs.R>>
                                           ELSE <<>>,
                                   !.k = limit]
    /\ emitted' = <<>>
    /\ UNCHANGED Fixed

\* list(enumerator) on solution_iterator(limit): every way the generator
\* can run to its end from problem p with i solutions yielded (acc)
RECURSIVE SolutionRuns(_, _, _, _)
SolutionRuns(p, i, limit, acc) ==
    IF ~LoopContinues(i, limit)
    THEN {[p |-> p, yielded |-> acc, raised |-> "none"]}
    ELSE UNION {
        IF o.out = <<>>
        THEN {[p |-> p, yielded |-> acc,
               raised |-> SolutionIteratorExcept(SolutionIsEmpty)]}
        ELSE SolutionRuns(ExcludeReturned(p, model, dvar_mapping,
                                          indicator_map, efp_auxiliary_map,
                                          o.out[1]),
                          i + 1, limit, acc \o o.out) :
        o \in OptimizeOutcomes(model, p.rows)}

\* list(enumerator) on population_iterator(limit): every way the generator
\* can run from problem p at size i, acc being the batches yielded
RECURSIVE PopulationRuns(_, _, _, _)
PopulationRuns(p, i, limit, acc) ==
    IF i > limit
    THEN {[p |-> p, yielded |-> acc, raised |-> "none"]}
    ELSE LET sized == [rows |-> PopulationSize(p.rows, IVars(model), i),
                       cuts |-> p.cuts]
         IN UNION {
            IF o.solver = "error"
            THEN {[p |-> sized, yielded |-> acc,
                   raised |-> PopulationIteratorExcept(PopulateError)]}
            ELSE PopulationRuns(CutAll(sized, model, dvar_mapping,
                                       indicator_map, efp_auxiliary_map,
                                       o.out, 1),
                                NextSize(i), limit, acc \o <<o.out>>) :
            o \in PopulateOutcomes(model, sized.rows)}

RECURSIVE Chain(_)
\* list(chain(*sols)): the batches joined in order
Chain(batches) ==
    IF batches = <<>> THEN <<>>
    ELSE Head(batches) \o Chain(Tail(batches))

\* what enumerate returns from a run of list(enumerator): an exception
\* that leaves the generator leaves list() and enumerate too, and nothing
\* is returned
EnumerateReturns(method, run) ==
    IF run.raised # "none" THEN <<>>
    ELSE IF method = "POPULATE" THEN Chain(run.yielded) ELSE run.yielded

\* list(enumerator) on the iterator get_enumerator returns for the method
\* on the prepared problem p
EnumeratorRuns(method, p, limit) ==
    IF method = "ITERATE"
    THEN SolutionRuns(SolutionIteratorStart(p, IVars(model)), 0, limit, <<>>)
    ELSE PopulationRuns(reset_enumerator_state(p, IVars(model)), 1, limit,
                        <<>>)

\* enumerate(linear_system, excluded_sets, forced_sets): get_enumerator on
\* a new enumerator, then
\* list(enumerator), joined when the method is POPULATE
Enumerate(method, limit) ==
    /\ built
    /\ LET fresh == [rows |-> FreshRows(model), cuts |-> <<>>]
       IN \E excluded \in BOOLEAN, fs \in ForcedSets(model) :
            LET call == [NoCall EXCEPT
                            !.op = "enumerate", !.solver = method,
                            !.k = limit,
                            !.sols = IF fs.kind = "sol"
                                     THEN <<Solution(fs.x, "optimal")>>
                                     ELSE <<>>,
                            !.raw = IF fs.kind = "raw" THEN <<fs.R>>
                                    ELSE <<>>]
            IN IF excluded /\ CallRaises(ExcludePasses)
               THEN /\ rows' = fresh.rows
                    /\ integer_cuts' = fresh.cuts
                    /\ emitted' = <<>>
                    /\ last' = [NoCall EXCEPT !.op = "enumerate",
                                              !.solver = method,
                                              !.k = limit,
                                              !.raised = "TypeError"]
               ELSE \E run \in EnumeratorRuns(method,
                                               Prepare(fresh, fs), limit) :
                    /\ rows' = run.p.rows
                    /\ integer_cuts' = run.p.cuts
                    /\ emitted' = IF method = "POPULATE"
                                  THEN Chain(run.yielded) ELSE run.yielded
                    /\ last' = [call EXCEPT
                                   !.raised = run.raised,
                                   !.out = EnumerateReturns(method, run)]
    /\ sit' = NoIterator
    /\ pit' = NoIterator
    /\ forced' = {}
    /\ UNCHANGED Fixed

\* KShortestEFMAlgorithm.enumerate in its two methods
NextEnumerate ==
    \/ Enumerate("ITERATE", MaxAmount)
    \/ Enumerate("POPULATE", MaxSize)

SpecEnumerate == Init /\ [][NextEnumerate]_vars

\* the operations called directly on a KShortestEnumerator
Next ==
    \/ \E k \in 1 .. MaxSize, equal \in BOOLEAN : SetSizeConstraint(k, equal)
    \/ GetSingleSolution
    \/ PopulateCurrentSize
    \/ ResetEnumeratorState
    \/ ExcludeSolutions
    \/ ForceSolution
    \/ ForceRaw

Spec == Init /\ [][Next]_vars

\* enumeration runs: the two iterators, created directly or by
\* KShortestEFMAlgorithm.get_enumerator, possibly after force_solutions
NextRun ==
    \/ ForceSolution
    \/ SolutionIteratorCreate(MaxAmount)
    \/ SolutionIteratorNext
    \/ SolutionIteratorDiscard
    \/ PopulationIteratorCreate(MaxSize)
    \/ PopulationIteratorNext
    \/ PopulationIteratorDiscard
    \/ GetEnumerator("ITERATE", MaxAmount)
    \/ GetEnumerator("POPULATE", MaxSize)

SpecRun == Init /\ [][NextRun]_vars

\* every operation of the enumerator: the direct calls between runs and
\* the runs of the two iterators, whose advances are the calls of
\* get_single_solution (__optimize) and populate_current_size (__populate)
NextOperations ==
    \/ \E k \in 1 .. MaxSize, equal \in BOOLEAN : SetSizeConstraint(k, equal)
    \/ ResetEnumeratorState
    \/ ExcludeSolutions
    \/ ForceSolution
    \/ ForceRaw
    \/ SolutionIteratorCreate(MaxAmount)
    \/ SolutionIteratorNext
    \/ SolutionIteratorDiscard
    \/ PopulationIteratorCreate(MaxSize)
    \/ PopulationIteratorNext
    \/ PopulationIteratorDiscard

\* the systems with a reversible reaction: their problems have exclusivity
\* rows next to the indicator rows
InitOperations == Init /\ model.rev

SpecOperations == InitOperations /\ [][NextOperations]_vars

\* ------------------------------------------- __add_integer_cut on its own
\* the indicator values a value map may hold, in units of 1e-6
CutValues == {-One, 0, Eps, One}

\* an enumerator as __add_integer_cut requires it: for a pattern system
\* the auxiliary map is there (the assertion of the function)
InitCut ==
    \E ls \in LinearSystems :
        /\ model = ls
        /\ built = TRUE
        /\ dvar_mapping = DvarMapping(ls)
        /\ indicator_map = IndicatorMap(ls)
        /\ efp_auxiliary_map = IF ls.efp THEN EfpAuxiliaryMap(ls) ELSE <<>>
        /\ rows = set_size_constraint(
                      IF ls.efp THEN AddEfpAuxiliaryConstraints(BaseRows(ls), ls)
                      ELSE BaseRows(ls),
                      IVars(ls), 1, FALSE)
        /\ integer_cuts = <<>>
        /\ exclusion_cuts = <<>>
        /\ sit = NoIterator
        /\ pit = NoIterator
        /\ emitted = <<>>
        /\ forced = {}
        /\ num_rx = 0
        /\ last = [NoCall EXCEPT !.op = "__init__"]

\* __add_integer_cut(value_map, efp_cut, equality, length_override) on any
\* value map; efp_cut without an auxiliary map fails the assertion
AddIntegerCut ==
    /\ last.op = "__init__"
    /\ \E value_map \in [IVars(model) -> CutValues],
          efp_cut \in BOOLEAN, equality \in BOOLEAN,
          length_override \in 0 .. DefaultLengthOverride :
        LET call == [NoCall EXCEPT !.op = "add_integer_cut",
                                   !.sols = <<Solution(value_map, "None")>>,
                                   !.efp = efp_cut, !.equal = equality,
                                   !.k = length_override]
        IN IF efp_cut /\ efp_auxiliary_map = <<>>
           THEN /\ last' = [call EXCEPT !.raised = "AssertionError"]
                /\ UNCHANGED <<rows, integer_cuts>>
           ELSE LET p == add_integer_cut(Problem, model, dvar_mapping,
                                         indicator_map, efp_auxiliary_map,
                                         value_map, efp_cut, equality,
                                         length_override)
                IN /\ rows' = p.rows
                   /\ integer_cuts' = p.cuts
                   /\ last' = call
    /\ UNCHANGED <<Fixed, sit, pit, emitted, forced>>

NextCut == AddIntegerCut

SpecCut == InitCut /\ [][NextCut]_vars

\* ------------------------------------------------------- the toy network
\* an irreversible, ordinary network of ToyReactions reactions in which
\* one set of ToyModeSize reactions is the only elementary mode (the other
\* reactions carry no steady-state flux)
ToySystems ==
    {[nr |-> ToyReactions, rev |-> FALSE, efp |-> FALSE, modes |-> {m}] :
        m \in {t \in SUBSET (0 .. ToyReactions - 1) :
                  Cardinality(t) = ToyModeSize}}

\* KShortestEnumerator(linear_system) on a toy network
InitToy ==
    \E ls \in ToySystems :
        /\ model = ls
        /\ built = ~InitRaises(ls)
        /\ dvar_mapping = DvarMapping(ls)
        /\ indicator_map = IndicatorMap(ls)
        /\ efp_auxiliary_map = <<>>
        /\ rows = FreshRows(ls)
        /\ integer_cuts = <<>>
        /\ exclusion_cuts = <<>>
        /\ sit = NoIterator
        /\ pit = NoIterator
        /\ emitted = <<>>
        /\ forced = {}
        /\ num_rx = 0
        /\ last = [NoCall EXCEPT !.op = "__init__"]

\* iterate-mode enumeration: solution_iterator, created directly or by
\* get_enumerator with the ITERATE method
NextToy ==
    \/ SolutionIteratorCreate(MaxAmount)
    \/ SolutionIteratorNext
    \/ SolutionIteratorDiscard
    \/ GetEnumerator("ITERATE", MaxAmount)

SpecToy == InitToy /\ [][NextToy]_vars

\* ------------------------------------ runs of the two iterators together
\* irreversible, ordinary networks of RunReactions reactions with two
\* elementary modes of different sizes: one reaction, and all the others
RunSystems ==
    {[nr |-> RunReactions, rev |-> FALSE, efp |-> FALSE,
      modes |-> {{a}, (0 .. RunReactions - 1) \ {a}}] :
        a \in 0 .. RunReactions - 1}

\* KShortestEnumerator(linear_system) on such a network
InitInterleaved ==
    \E ls \in RunSystems :
        /\ model = ls
        /\ built = ~InitRaises(ls)
        /\ dvar_mapping = DvarMapping(ls)
        /\ indicator_map = IndicatorMap(ls)
        /\ efp_auxiliary_map = <<>>
        /\ rows = FreshRows(ls)
        /\ integer_cuts = <<>>
        /\ exclusion_cuts = <<>>
        /\ sit = NoIterator
        /\ pit = NoIterator
        /\ emitted = <<>>
        /\ forced = {}
        /\ num_rx = 0
        /\ last = [NoCall EXCEPT !.op = "__init__"]

\* a solution iterator with no effective maximum_amount and a population
\* iterator on the same enumerator, advanced in any order
NextInterleaved ==
    \/ SolutionIteratorCreate(RunAmount)
    \/ SolutionIteratorNext
    \/ SolutionIteratorDiscard
    \/ PopulationIteratorCreate(MaxSize)
    \/ PopulationIteratorNext
    \/ PopulationIteratorDiscard

SpecInterleaved == InitInterleaved /\ [][NextInterleaved]_vars

\* a step of SolutionIteratorNext as the generator shows it: the generator
\* finishes, or it counts and keeps the solution it yields
SolutionIteratorAdvance ==
    /\ built
    /\ sit.pc \in {"created", "running"}
    /\ \/ sit' = [sit EXCEPT !.pc = "done", !.i = 0, !.result = <<>>]
       \/ \E x \in [IVars(model) -> {0, One}] :
             sit' = [sit EXCEPT !.pc = "running", !.i = sit.i + 1,
                                !.result = <<Solution(x, "optimal")>>]

\* the caller of a solution iterator keeps advancing it (a for loop, list())
SpecInterleavedFair == SpecInterleaved /\ WF_sit(SolutionIteratorAdvance)

\* ----------------------------------------------- the intervention problem
\* None or a number: {} or {v}, as for the bounds of a row
Optional(V) == {NoBound} \cup {Bound(v) : v \in V}
ValueOf(b) == CHOOSE v \in b : TRUE
\* reaction indices given to constraints
Columns == 0 .. MaxColumns - 1

\* DefaultFluxbound.__init__(lb, ub, r_index)
DefaultFluxbound(lb, ub, r_index) ==
    [type |-> "flux", lb |-> lb, ub |-> ub, r_index |-> r_index]

\* DefaultYieldbound.__init__(lb, ub, numerator_index, denominator_index,
\* deviation): a deviation of None is stored as 0
DefaultYieldbound(lb, ub, numerator_index, denominator_index, deviation) ==
    [type |-> "yield", lb |-> lb, ub |-> ub,
     numerator_index |-> numerator_index,
     denominator_index |-> denominator_index,
     deviation |-> IF deviation # NoBound THEN ValueOf(deviation) ELSE 0]

\* a test of the bound by its truth value
IsTruthy(bound) == bound # NoBound /\ bound # Bound(0)

\* self.__lb != None, self.__ub != None
IsSet(bound) == bound # NoBound

\* zeros((1, n)): the one row of the array, columns 0 .. n-1
zeros(n) == [c \in 0 .. n - 1 |-> 0]

\* row[0, idx] = v for an index inside the row
SetItem(row, idx, v) == [c \in DOMAIN row |-> IF c = idx THEN v ELSE row[c]]

\* what concatenate(Tx, axis=0) and the item assignments raise
MaterializeRaises(Tx, indices, n) ==
    IF Tx # <<>> /\ \E idx \in indices : idx \notin 0 .. n - 1
    THEN "IndexError"
    ELSE IF Tx = <<>> THEN "ValueError" ELSE "none"

\* DefaultFluxbound.materialize(n)
FluxboundMaterialize(c, n) ==
    LET Tlb == SetItem(zeros(n), c.r_index, -1)
        Tub == SetItem(zeros(n), c.r_index, 1)
        Tx == (IF IsSet(c.lb) THEN <<Tlb>> ELSE <<>>)
              \o (IF IsSet(c.ub) THEN <<Tub>> ELSE <<>>)
        b == (IF IsSet(c.lb) THEN <<-ValueOf(c.lb)>> ELSE <<>>)
             \o (IF IsSet(c.ub) THEN <<ValueOf(c.ub)>> ELSE <<>>)
    IN [T |-> Tx, b |-> b,
        raised |-> MaterializeRaises(Tx, {c.r_index}, n)]

\* DefaultYieldbound.materialize(n): the denominator is assigned after the
\* numerator
YieldboundMaterialize(c, n) ==
    LET Tlb == SetItem(SetItem(zeros(n), c.numerator_index, -1),
                       c.denominator_index,
                       IF IsSet(c.lb) THEN ValueOf(c.lb) ELSE 0)
        Tub == SetItem(SetItem(zeros(n), c.numerator_index, 1),
                       c.denominator_index,
                       IF IsSet(c.ub) THEN -ValueOf(c.ub) ELSE 0)
        Tx == (IF IsSet(c.lb) THEN <<Tlb>> ELSE <<>>)
              \o (IF IsSet(c.ub) THEN <<Tub>> ELSE <<>>)
        b == (IF IsSet(c.lb) THEN <<c.deviation>> ELSE <<>>)
             \o (IF IsSet(c.ub) THEN <<c.deviation>> ELSE <<>>)
    IN [T |-> Tx, b |-> b,
        raised |-> MaterializeRaises(
                       Tx, {c.numerator_index, c.denominator_index}, n)]

\* const.materialize(n)
Materialize(c, n) ==
    IF c.type = "flux" THEN FluxboundMaterialize(c, n)
    ELSE YieldboundMaterialize(c, n)

RECURSIVE Concatenate(_)
\* concatenate(Tlist, axis=0) and chain(*blist): the parts in order
Concatenate(parts) ==
    IF parts = <<>> THEN <<>>
    ELSE Head(parts) \o Concatenate(Tail(parts))

\* InterventionProblem.generate_target_matrix(constraints) with n columns:
\* the first materialize that raises ends the call; unpacking the zip of
\* no pairs raises ValueError
generate_target_matrix(constraints, n) ==
    LET constraint_pairs ==
            [i \in DOMAIN constraints |-> Materialize(constraints[i], n)]
        failing == {i \in DOMAIN constraints :
                       constraint_pairs[i].raised # "none"}
        Tlist == [i \in DOMAIN constraints |-> constraint_pairs[i].T]
        blist == [i \in DOMAIN constraints |-> constraint_pairs[i].b]
    IN IF failing # {}
       THEN [T |-> <<>>, b |-> <<>>,
             raised |-> constraint_pairs[
                            CHOOSE i \in failing :
                                \A j \in failing : i <= j].raised]
       ELSE IF constraints = <<>>
       THEN [T |-> <<>>, b |-> <<>>, raised |-> "ValueError"]
       ELSE [T |-> Concatenate(Tlist), b |-> Concatenate(blist),
             raised |-> "none"]

\* the constraints given: flux bounds and yield bounds
Constraints ==
    {DefaultFluxbound(lb, ub, r) :
        lb \in Optional(BoundValues), ub \in Optional(BoundValues),
        r \in Columns}
    \cup {DefaultYieldbound(lb, ub, nu, de, dev) :
             lb \in Optional(BoundValues), ub \in Optional(BoundValues),
             nu \in Columns, de \in Columns,
             dev \in Optional(DeviationValues)}

ConstraintSeqs ==
    UNION {[1 .. len -> Constraints] : len \in 0 .. MaxConstraints}

\* InterventionProblem(S) for a matrix S of 1 .. MaxColumns columns; there
\* is no enumerator
InitTarget ==
    /\ num_rx \in 1 .. MaxColumns
    /\ model = [nr |-> 0, rev |-> FALSE, efp |-> FALSE, modes |-> {}]
    /\ built = FALSE
    /\ dvar_mapping = <<>>
    /\ indicator_map = <<>>
    /\ efp_auxiliary_map = <<>>
    /\ rows = <<>>
    /\ integer_cuts = <<>>
    /\ exclusion_cuts = <<>>
    /\ sit = NoIterator
    /\ pit = NoIterator
    /\ emitted = <<>>
    /\ forced = {}
    /\ last = [op |-> "InterventionProblem", constraints |-> <<>>,
               T |-> <<>>, b |-> <<>>, raised |-> "none"]

\* generate_target_matrix(constraints) on the new object
GenerateTargetMatrix ==
    /\ last.op = "InterventionProblem"
    /\ \E constraints \in ConstraintSeqs :
        LET r == generate_target_matrix(constraints, num_rx)
        IN last' = [op |-> "generate_target_matrix",
                    constraints |-> constraints,
                    T |-> r.T, b |-> r.b, raised |-> r.raised]
    /\ UNCHANGED <<Fixed, rows, integer_cuts, sit, pit, emitted, forced>>

\* c.materialize(n) called on a constraint by itself
MaterializeConstraint ==
    /\ last.op = "InterventionProblem"
    /\ \E c \in Constraints :
        LET r == Materialize(c, num_rx)
        IN last' = [op |-> "materialize", constraints |-> <<c>>,
                    T |-> r.T, b |-> r.b, raised |-> r.raised]
    /\ UNCHANGED <<Fixed, rows, integer_cuts, sit, pit, emitted, forced>>

\* the tuples given to DefaultYieldbound.from_tuple: numerator, denominator,
\* lower yield, upper yield and, optionally, the deviation
YieldTuples ==
    {<<nu, de, ylb, yub>> :
        nu \in Columns, de \in Columns,
        ylb \in Optional(BoundValues), yub \in Optional(BoundValues)}
    \cup {<<nu, de, ylb, yub, dev>> :
             nu \in Columns, de \in Columns,
             ylb \in Optional(BoundValues), yub \in Optional(BoundValues),
             dev \in Optional(DeviationValues)}

\* DefaultYieldbound.from_tuple(tup): dev is assigned only when the tuple
\* has more than 4 elements, and is read in the return statement
from_tuple(tup) ==
    IF Len(tup) > 4
    THEN [raised |-> "none",
          out |-> <<DefaultYieldbound(tup[3], tup[4], tup[1], tup[2], tup[5])>>]
    ELSE [raised |-> "UnboundLocalError", out |-> <<>>]

\* DefaultYieldbound.from_tuple called on a tuple
YieldboundFromTuple ==
    /\ last.op = "InterventionProblem"
    /\ \E tup \in YieldTuples :
        LET r == from_tuple(tup)
        IN last' = [op |-> "from_tuple", tup |-> tup, constraints |-> r.out,
                    T |-> <<>>, b |-> <<>>, raised |-> r.raised]
    /\ UNCHANGED <<Fixed, rows, integer_cuts, sit, pit, emitted, forced>>

NextTarget ==
    \/ GenerateTargetMatrix
    \/ MaterializeConstraint
    \/ YieldboundFromTuple

SpecTarget == InitTarget /\ [][NextTarget]_vars

\* ------------------------------------------- the indicator rows on values
\* the values a flux variable takes in an assignment (units of 1e-6)
FluxValues == {-One, 0, One, 2 * One}
\* the values of the threshold variable get_c_variable(): the linear system
\* keeps it positive, a flux being active when it is beyond the threshold
ThresholdValues == {One, 2 * One}
\* itype = VAR_BINARY, ilb = 0, iub = 1 for the five helpers
BinaryValues == {0, One}

\* the helpers of the k-th dvar: 5 columns from its indicator on
BlockHelpers(ls, k) == {Helper(ls, k, j) : j \in 0 .. TemplateCols - 1}
\* the six rows of the k-th dvar in the problem
BlockRows(rs, k) == {rs[n] : n \in (k * TemplateRows) + 1 .. (k + 1) * TemplateRows}

\* the assignments to the variables of the k-th block: its flux variable,
\* the threshold variable and its helpers
Assignments(ls, k) ==
    {h @@ (Dvars(ls)[k] :> v) @@ (CVariable(ls) :> c) :
        h \in [BlockHelpers(ls, k) -> BinaryValues],
        v \in FluxValues, c \in ThresholdValues}

\* add_indicator_constraint(var, value): the row binds when the variable
\* has the value
CondHolds(row, x) == \A c \in row.cond : x[c[1]] = c[2] * One
IndicatorRowSat(row, x) == CondHolds(row, x) => RowSat(row, x)

\* the solver reads an assignment of the k-th block against its rows
AssignBlock ==
    /\ last.op = "__init__"
    /\ \E k \in Positions(model) : \E x \in Assignments(model, k) :
          last' = [op |-> "assignment", k |-> k, x |-> x,
                   sat |-> \A row \in BlockRows(rows, k) : IndicatorRowSat(row, x),
                   raised |-> "none"]
    /\ UNCHANGED <<rows, integer_cuts, sit, pit, emitted, forced>>
    /\ UNCHANGED Fixed

NextEncoding == AssignBlock

SpecEncoding == Init /\ [][NextEncoding]_vars

\* =================================================================== claims
LastRow == rows[Len(rows)]
SizeRows == {i \in DOMAIN rows : rows[i].name = SIZE_CONSTRAINT}
\* the indicators of reaction r, read off the enumerator's two maps
ReactionIndicators(r) ==
    {indicator_map[dvar_mapping[r][j]] : j \in DOMAIN dvar_mapping[r]}

\* C1: the solutions returned since the last reset of the enumerator (by
\* solution_iterator, by population_iterator over its sizes) have pairwise
\* different sets of active indicators
C1_NoDuplicateSolutions ==
    \A i, j \in DOMAIN emitted :
        i < j => ActiveIndicators(emitted[i].x) # ActiveIndicators(emitted[j].x)

\* a run has returned two solutions, the last of them in this step
C1_Witness ==
    /\ Len(emitted) >= 2
    /\ last.op \in {"solution_iterator.next", "population_iterator.next"}
    /\ last.out # <<>>

\* C2: every solution of the batch population_iterator yields for size s
\* has exactly s active indicators
C2_BatchHasSize ==
    last.op = "population_iterator.next" =>
        \A i \in DOMAIN last.out :
            Cardinality(ActiveIndicators(last.out[i].x)) = last.k

\* a batch of two solutions of size 2 has been yielded
C2_Witness ==
    /\ last.op = "population_iterator.next"
    /\ last.k = 2
    /\ Len(last.out) = 2

\* C3: in every returned solution a reaction mapped to a forward/backward
\* pair has at most one of the two indicators active
C3_Exclusive ==
    \A i \in DOMAIN emitted :
        \A r \in DOMAIN dvar_mapping :
            IsPair(dvar_mapping[r]) =>
                Cardinality(ReactionIndicators(r)
                            \cap ActiveIndicators(emitted[i].x)) <= 1

\* a solution with the reversible reaction active in one direction, next
\* to another active reaction, has been returned
C3_Witness ==
    \E i \in DOMAIN emitted :
        \E r \in DOMAIN dvar_mapping :
            /\ IsPair(dvar_mapping[r])
            /\ Cardinality(ReactionIndicators(r)
                           \cap ActiveIndicators(emitted[i].x)) = 1
            /\ Cardinality(ActiveIndicators(emitted[i].x)) = 2

\* C4: after reset_enumerator_state the rows of the problem are those of a
\* freshly constructed enumerator on the same system, and the first solve
\* has the same possible results
C4_ResetIsFresh ==
    last.op = "reset_enumerator_state" =>
        /\ rows = FreshRows(model)
        /\ Optima(Feasible(model, rows))
               = Optima(Feasible(model, FreshRows(model)))

\* C5: after reset_enumerator_state no cut row is left in the problem,
\* the cut list is empty and the size constraint is 'at least 1'
C5_ResetRemovesCuts ==
    last.op = "reset_enumerator_state" =>
        /\ \A i \in DOMAIN rows : rows[i].kind \notin {"cut", "raw"}
        /\ integer_cuts = <<>>
        /\ \A i \in SizeRows : rows[i].lb = {1} /\ rows[i].ub = {}

\* C6: an enumerator has exactly one size row, the one its constructor
\* added; after set_size_constraint(k, equal) its bounds are [k, k] when
\* equal and [k, infinity) otherwise
C6_OneSizeRow ==
    built =>
        /\ Cardinality(SizeRows) = 1
        /\ \A i \in SizeRows :
            /\ rows[i].id = (TemplateRows * NumDvars(model))
                               + (IF model.rev THEN 1 ELSE 0) + 1
            /\ last.op = "set_size_constraint" =>
                /\ rows[i].lb = {last.k}
                /\ rows[i].ub = IF last.equal THEN {last.k} ELSE {}

\* the size row has been set to exactly 2 after cuts were added
C6_Witness ==
    /\ last.op = "set_size_constraint"
    /\ last.k = 2
    /\ last.equal
    /\ integer_cuts # <<>>

\* the value map given to the last call of add_integer_cut
CutValueMap == last.sols[1].x
\* summed absolute indicator value of the dvar group of reaction r
GroupValue(r) ==
    Abs(CutValueMap[indicator_map[dvar_mapping[r][1]]])
        + (IF IsPair(dvar_mapping[r])
           THEN Abs(CutValueMap[indicator_map[dvar_mapping[r][2]]])
           ELSE 0)
CutGroups == {r \in DOMAIN dvar_mapping : GroupValue(r) > Eps}
CutIndicators == UNION {ReactionIndicators(r) : r \in CutGroups}
CutCalled == last.op = "add_integer_cut" /\ last.raised = "none"

C8_ExcludeAccepted ==
    (last.op = "exclude_solutions" /\ last.sols # <<>>) =>
        /\ last.raised = "none"
        /\ last.sols[1].x \notin Feasible(model, rows)

\* the reactions active in a returned solution
SolutionReactions(sol) ==
    {r \in DOMAIN dvar_mapping :
        ReactionIndicators(r) \cap ActiveIndicators(sol.x) # {}}

\* C9: every solution returned after force_solutions was given a
\* KShortestSolution S has every reaction of S active
C9_ForcedStayActive ==
    \A i \in DOMAIN last.out :
        \A F \in forced : F \subseteq SolutionReactions(last.out[i])

\* C10: the row added for a raw tuple R sums exactly the indicators of the
\* reactions listed in R and bounds the sum by |R| - 1
C10_RawCutRow ==
    (last.op = "force_solutions" /\ last.raw # <<>>) =>
        /\ RowVars(LastRow)
               = UNION {ReactionIndicators(r) : r \in Range(last.raw[1])}
        /\ LastRow.ub = {Len(last.raw[1]) - 1}
        /\ LastRow.lb = {}

\* the step is a call of populate_current_size that returned its pool
Populated ==
    last'.op = "populate_current_size" /\ last'.raised = "none"
\* the j-th row / handle the step appended
AppendedRow(j) == rows'[Len(rows) + j]
AppendedCut(j) == integer_cuts'[Len(integer_cuts) + j]
\* the step appended one row and one handle per returned solution, the
\* j-th row being an upper-bound row over the indicators of the active
\* groups of the j-th solution
AppendedCuts ==
    LET n == Len(last'.out)
    IN /\ Len(rows') = Len(rows) + n
       /\ Len(integer_cuts') = Len(integer_cuts) + n
       /\ \A j \in 1 .. n :
            /\ AppendedCut(j) = AppendedRow(j).id
            /\ AppendedRow(j).kind = "cut"
            /\ AppendedRow(j).lb = {}
            /\ RowVars(AppendedRow(j)) =
                   UNION {ReactionIndicators(r) :
                             r \in SolutionReactions(last'.out[j])}

\* C11 (as claimed): populate appends, for each solution it returns, one
\* exclusion cut built with sizeOverride 0, whose right-hand side is the
\* number of active groups of the solution
C11_CutWithOverride0 ==
    [][Populated =>
        /\ AppendedCuts
        /\ \A j \in 1 .. Len(last'.out) :
            AppendedRow(j).ub
                = {Cardinality(SolutionReactions(last'.out[j]))}]_vars

\* C11 (amended): populate appends, for each solution it returns, one
\* exclusion cut built with the default sizeOverride 1, whose right-hand
\* side is the number of active groups of the solution minus 1
C11_CutWithDefaultOverride ==
    [][Populated =>
        /\ AppendedCuts
        /\ \A j \in 1 .. Len(last'.out) :
            AppendedRow(j).ub
                = {Cardinality(SolutionReactions(last'.out[j])) - 1}]_vars

\* populate_current_size has returned two solutions and cut both
C11_Witness ==
    /\ last.op = "populate_current_size"
    /\ Len(last.out) = 2
    /\ Len(integer_cuts) >= 2

\* the last step of solution_iterator made a solve that ended with a
\* status other than 'optimal' or with a solver exception
FailedSolve ==
    /\ last.op = "solution_iterator.next"
    /\ last.solver \in {"infeasible", "nonoptimal", "exception"}

\* C12: a solve of solution_iterator that is not 'optimal', or that
\* raises, yields nothing and ends the iteration; no exception reaches the
\* caller of the iterator
C12_FailedSolveEndsIteration ==
    FailedSolve =>
        /\ last.out = <<>>
        /\ last.raised = "none"
        /\ sit.pc \in {"done", "none"}

\* the solver raised in the second solve of an iteration, after one
\* solution had been yielded
C12_Witness ==
    /\ last.op = "solution_iterator.next"
    /\ last.solver = "exception"
    /\ Len(emitted) = 1
    /\ sit.pc = "done"

\* the last step of population_iterator made a populate that failed
FailedPopulate ==
    /\ last.op = "population_iterator.next"
    /\ last.solver = "error"

\* C13: an error during populate at size s is raised to the caller of
\* population_iterator, which yields no batch for s and is finished: it
\* does not go on to the sizes after s
C13_PopulateErrorIsRaised ==
    FailedPopulate =>
        /\ last.raised = PopulateError
        /\ last.out = <<>>
        /\ pit.pc \in {"done", "none"}

\* populate failed at size 1 of 2, a size with solutions, so that sizes
\* were left to visit
C13_Witness ==
    /\ FailedPopulate
    /\ last.k = 1
    /\ last.k < MaxSize
    /\ pit.pc = "done"
    /\ Feasible(model, rows) # {}

\* the step is a next() on population_iterator in which nothing failed
PopulationStep ==
    /\ pit.pc \in {"created", "running"}
    /\ pit' # pit
    /\ last'.op = "population_iterator.next"
    /\ last'.raised = "none"
\* the size the step has to visit: 1 on the first advance, else the size
\* after the last one visited
DueSize == IF pit.pc = "created" THEN 1 ELSE pit.i + 1
\* the step yielded a batch for size s, populated under a size row set to
\* exactly s
YieldedBatchFor(s) ==
    /\ pit'.pc = "running"
    /\ pit'.i = s
    /\ last'.k = s
    /\ last'.solver = "pool"
    /\ \A i \in DOMAIN rows' :
        rows'[i].name = SIZE_CONSTRAINT =>
            rows'[i].lb = {s} /\ rows'[i].ub = {s}
    /\ \A j \in DOMAIN last'.out :
        Cardinality(ActiveIndicators(last'.out[j].x)) = s

\* C14: absent errors, each next() on population_iterator(max_size) yields
\* one batch, possibly empty, for the next size in 1, 2, ..., max_size,
\* populated with the size constraint set to exactly that size; the next()
\* after the batch for max_size ends the iteration with no batch
C14_SizesInOrder ==
    [][PopulationStep =>
        IF DueSize <= pit.limit
        THEN YieldedBatchFor(DueSize)
        ELSE pit'.pc = "done" /\ last'.out = <<>> /\ emitted' = emitted]_vars

\* an iteration ended by itself after its batches for sizes 1 and 2, one
\* of them holding a solution of size 2
C14_Witness ==
    /\ last.op = "population_iterator.next"
    /\ last.raised = "none"
    /\ last.solver = ""
    /\ pit.pc = "done"
    /\ pit.limit = 2
    /\ \E i \in DOMAIN emitted :
        Cardinality(ActiveIndicators(emitted[i].x)) = 2

\* the step is a next() on solution_iterator
SolutionStep ==
    /\ sit.pc \in {"created", "running"}
    /\ sit' # sit
    /\ last'.op = "solution_iterator.next"
\* the first advance resets the enumerator before it solves
CutsBeforeSolve == IF sit.pc = "created" THEN <<>> ELSE integer_cuts
EmittedBeforeSolve == IF sit.pc = "created" THEN <<>> ELSE emitted
\* the step emitted one solution and appended its exclusion cut
EmittedAndCut ==
    LET row == rows'[Len(rows')]
        sol == last'.out[1]
    IN /\ Len(last'.out) = 1
       /\ last'.solver = "optimal"
       /\ emitted' = EmittedBeforeSolve \o last'.out
       /\ integer_cuts' = CutsBeforeSolve \o <<row.id>>
       /\ row.kind = "cut"
       /\ row.lb = {}
       /\ row.ub = {Cardinality(SolutionReactions(sol)) - 1}
       /\ RowVars(row) =
              UNION {ReactionIndicators(r) : r \in SolutionReactions(sol)}
       /\ sol.x \notin Feasible(model, rows')

\* C15: a next() on a fresh or running solution_iterator either emits one
\* solution, adds its exclusion cut and leaves the iterator running with
\* at most maximum_amount solutions emitted, or emits nothing and leaves
\* it exhausted; a next() that finds maximum_amount solutions emitted
\* issues no solve; an exhausted iterator emits and solves nothing more
C15_IteratorStateMachine ==
    [][/\ SolutionStep =>
            IF last'.out # <<>>
            THEN /\ EmittedAndCut
                 /\ sit'.pc = "running"
                 /\ sit'.i = (IF sit.pc = "created" THEN 0 ELSE sit.i) + 1
                 /\ sit'.i <= sit.limit
            ELSE /\ sit'.pc = "done"
                 /\ emitted' = EmittedBeforeSolve
                 /\ integer_cuts' = CutsBeforeSolve
                 /\ (sit.pc = "running" /\ sit.i = sit.limit)
                        => last'.solver = ""
       /\ sit.pc = "done" =>
            /\ last' # last => last'.op # "solution_iterator.next"
            /\ sit'.pc \in {"done", "none", "created"}]_vars

\* an iterator became exhausted, with no solve, after it had emitted
\* maximum_amount solutions
C15_Witness ==
    /\ last.op = "solution_iterator.next"
    /\ last.solver = ""
    /\ sit.pc = "done"
    /\ Len(emitted) = MaxAmount
    /\ Len(integer_cuts) = MaxAmount

\* no row of a raw tuple, which a reset does not remove, is in the problem
PlainProblem == \A i \in DOMAIN rows : rows[i].kind # "raw"

\* C16: on the toy network, the first step of solution_iterator cannot
\* find the problem infeasible and, when its solve is optimal, yields
\* exactly the reactions of the one elementary mode; the second step
\* yields nothing and ends the iteration without an exception
C16_ToyNetwork ==
    [][(SolutionStep /\ PlainProblem) =>
        /\ sit.pc = "created" =>
            /\ last'.solver # "infeasible"
            /\ last'.solver = "optimal" =>
                /\ Len(last'.out) = 1
                /\ SolutionReactions(last'.out[1]) \in model.modes
                /\ Cardinality(SolutionReactions(last'.out[1]))
                       = ToyModeSize
        /\ (sit.pc = "running" /\ sit.i = 1) =>
            /\ last'.solver \in {"infeasible", "exception"}
            /\ last'.out = <<>>
            /\ last'.raised = "none"
            /\ sit'.pc = "done"]_vars

\* on a toy network the iteration has yielded the mode and has then ended
\* on an infeasible problem
C16_Witness ==
    /\ model \in ToySystems
    /\ last.op = "solution_iterator.next"
    /\ last.solver = "infeasible"
    /\ sit.pc = "done"
    /\ Len(emitted) = 1
    /\ SolutionReactions(emitted[1]) \in model.modes

\* C17: when enumerate ends with a propagated error, the solutions its
\* enumerator had yielded before the failure are delivered to its caller
C17_PartialResultsDelivered ==
    (last.op = "enumerate" /\ last.raised # "none") => last.out = emitted

\* the last call of generate_target_matrix and its one constraint
TargetCalled == last.op = "generate_target_matrix"
OnlyConstraint == last.constraints[1]
\* a row that is v at column c and 0 elsewhere
UnitRow(row, c, v) ==
    /\ DOMAIN row = 0 .. num_rx - 1
    /\ \A k \in DOMAIN row : row[k] = (IF k = c THEN v ELSE 0)

\* C18: for a single DefaultFluxbound with lb and ub both set (0 included)
\* on a reaction r below the column count n, generate_target_matrix
\* returns a 2 x n matrix and a vector of length 2: row 0 is -1 at column
\* r with b[0] = -lb, row 1 is +1 at column r with b[1] = ub
C18_FluxboundRows ==
    (/\ TargetCalled
     /\ Len(last.constraints) = 1
     /\ OnlyConstraint.type = "flux"
     /\ OnlyConstraint.lb # NoBound
     /\ OnlyConstraint.ub # NoBound
     /\ OnlyConstraint.r_index < num_rx) =>
        /\ last.raised = "none"
        /\ Len(last.T) = 2
        /\ Len(last.b) = 2
        /\ UnitRow(last.T[1], OnlyConstraint.r_index, -1)
        /\ UnitRow(last.T[2], OnlyConstraint.r_index, 1)
        /\ last.b[1] = -ValueOf(OnlyConstraint.lb)
        /\ last.b[2] = ValueOf(OnlyConstraint.ub)

\* the target matrix of a flux bound [0, 2] on the middle reaction of a
\* matrix of three columns has been generated
C18_Witness ==
    /\ TargetCalled
    /\ num_rx = 3
    /\ last.constraints = <<DefaultFluxbound(Bound(0), Bound(2), 1)>>
    /\ last.raised = "none"
    /\ Len(last.T) = 2

\* C19: for a DefaultYieldbound with only an upper bound and numerator and
\* denominator indices below n, materialize(n) returns one row of n
\* columns with 1 at the numerator column, -ub at the denominator column
\* and 0 elsewhere, and b = [deviation]
C19_YieldUpperRow ==
    (/\ last.op = "materialize"
     /\ OnlyConstraint.type = "yield"
     /\ OnlyConstraint.lb = NoBound
     /\ OnlyConstraint.ub # NoBound
     /\ OnlyConstraint.numerator_index < num_rx
     /\ OnlyConstraint.denominator_index < num_rx) =>
        /\ last.raised = "none"
        /\ Len(last.T) = 1
        /\ DOMAIN last.T[1] = 0 .. num_rx - 1
        /\ last.T[1][OnlyConstraint.numerator_index] = 1
        /\ last.T[1][OnlyConstraint.denominator_index]
               = -ValueOf(OnlyConstraint.ub)
        /\ \A k \in DOMAIN last.T[1] :
            k \notin {OnlyConstraint.numerator_index,
                      OnlyConstraint.denominator_index} => last.T[1][k] = 0
        /\ last.b = <<OnlyConstraint.deviation>>

\* the indices a constraint names
IndicesOf(c) ==
    IF c.type = "flux" THEN {c.r_index}
    ELSE {c.numerator_index, c.denominator_index}
\* the rows the i-th constraint of the last call materializes, and the
\* number of rows of the constraints before it
RowsOf(i) == Materialize(last.constraints[i], num_rx)
RowsBefore(i) ==
    SumOver(1 .. i - 1, [k \in 1 .. i - 1 |-> Len(RowsOf(k).T)])

\* C20: for every sequence of constraints (on reactions of the matrix),
\* generate_target_matrix returns T and b of equal length, each constraint
\* contributing 1 or 2 rows, the rows and b entries of the constraints
\* appearing in input order, a lower-bound row before an upper-bound row
C20_RowsInInputOrder ==
    (/\ TargetCalled
     /\ \A i \in DOMAIN last.constraints :
            \A idx \in IndicesOf(last.constraints[i]) : idx < num_rx) =>
        /\ last.raised = "none"
        /\ Len(last.T) = Len(last.b)
        /\ Len(last.T) = RowsBefore(Len(last.constraints) + 1)
        /\ \A i \in DOMAIN last.constraints :
            /\ Len(RowsOf(i).T) \in {1, 2}
            /\ \A j \in 1 .. Len(RowsOf(i).T) :
                /\ last.T[RowsBefore(i) + j] = RowsOf(i).T[j]
                /\ last.b[RowsBefore(i) + j] = RowsOf(i).b[j]
            /\ (/\ last.constraints[i].type = "flux"
                /\ last.constraints[i].lb # NoBound
                /\ last.constraints[i].ub # NoBound) =>
                /\ last.T[RowsBefore(i) + 1][last.constraints[i].r_index]
                       = -1
                /\ last.T[RowsBefore(i) + 2][last.constraints[i].r_index]
                       = 1

\* the block assignment read in the last step, its dvar and its indicator
Assigned == last.op = "assignment"
AssignedFlux == last.x[Dvars(model)[last.k]]
AssignedThreshold == last.x[CVariable(model)]
AssignedIndicator == last.x[indicator_map[Dvars(model)[last.k]]]

\* C21: in every assignment that satisfies the indicator rows of a dvar,
\* the dvar's indicator is 1 exactly when its flux is nonzero and at least
\* the threshold variable: indicator 0 forces the flux to 0, indicator 1
\* forces the flux to be at least the threshold variable
C21_IndicatorIffActive ==
    (Assigned /\ last.sat) =>
        /\ AssignedIndicator = One <=>
              (AssignedFlux # 0 /\ AssignedFlux >= AssignedThreshold)
        /\ AssignedIndicator = 0 => AssignedFlux = 0
        /\ AssignedIndicator = One => AssignedFlux >= AssignedThreshold

C21_Witness ==
    /\ Assigned /\ last.sat
    /\ AssignedIndicator = One
    /\ AssignedFlux > AssignedThreshold

\* the rows of the cut list that exclude (no lower bound) rather than force
ExclusionCutRows ==
    {rows[n] : n \in {m \in DOMAIN rows : /\ rows[m].id \in Range(integer_cuts)
                                          /\ rows[m].lb = NoBound}}
\* the reactions an exclusion cut was built from: those with an indicator
\* in the row
CutReactions(row) ==
    {r \in DOMAIN dvar_mapping : ReactionIndicators(r) \cap RowVars(row) # {}}
\* an advance of a running iterator: it solves without a reset before
AdvanceWithoutReset ==
    \/ sit.pc = "running" /\ sit' # sit
    \/ pit.pc = "running" /\ pit' # pit

\* C22: a step of a run that does not reset returns no solution whose set
\* of active reactions equals or contains the reaction set of an exclusion
\* cut already in the problem, whichever direction of a reversible reaction
\* the solution uses
C22_CutExcludesSupersets ==
    [][AdvanceWithoutReset =>
        \A row \in ExclusionCutRows : \A j \in DOMAIN last'.out :
            ~(CutReactions(row) \subseteq SolutionReactions(last'.out[j]))]_vars

\* on a system with a reversible reaction, a running solution iterator has
\* returned a second solution with the cut of the first in the problem
C22_Witness ==
    /\ model.rev
    /\ sit.pc = "running" /\ sit.i = 2
    /\ last.op = "solution_iterator.next" /\ last.out # <<>>
    /\ Len(integer_cuts) >= 2
    /\ Len(emitted) = 2

\* the rows of the indicator encoding and of the exclusivity constraints
EncodingRows(rs) == SelectSeq(rs, LAMBDA r : r.kind \in {"indicator", "exclusivity"})
\* the rows other than the size row
NotSizeRows(rs) == SelectSeq(rs, LAMBDA r : r.name # SIZE_CONSTRAINT)
\* the rows whose handle is not in the cut list
NotInCutList(rs) == SelectSeq(rs, LAMBDA r : r.id \notin Range(integer_cuts))
ResetCalled == last'.op = "reset_enumerator_state" /\ last' # last

\* C23: every step of every operation leaves the indicator-encoding rows,
\* the exclusivity rows and the dvar-to-indicator map as they were, and a
\* call of reset_enumerator_state removes the rows recorded in the cut list
\* and no other row
C23_EncodingKept ==
    [][/\ EncodingRows(rows') = EncodingRows(rows)
       /\ indicator_map' = indicator_map
       /\ ResetCalled =>
            /\ RowIds(rows') = RowIds(rows) \ Range(integer_cuts)
            /\ NotSizeRows(rows') = NotSizeRows(NotInCutList(rows))]_vars

\* reset_enumerator_state has just removed the cut rows and kept a row
\* added after them outside the cut list (its handle is beyond the rows
\* that are left)
C23_Witness ==
    /\ last.op = "reset_enumerator_state"
    /\ integer_cuts = <<>>
    /\ \E n \in DOMAIN rows : rows[n].kind = "raw" /\ rows[n].id > Len(rows)
    /\ EncodingRows(rows) = BaseRows(model)

\* C24: DefaultYieldbound.from_tuple on (numerator, denominator, lower
\* yield, upper yield) returns the yield bound of these four with deviation
\* 0; on a tuple with a fifth element it returns the yield bound whose
\* deviation is that element
C24_FromTupleDeviation ==
    last.op = "from_tuple" =>
        /\ last.raised = "none"
        /\ Len(last.constraints) = 1
        /\ last.constraints[1].type = "yield"
        /\ last.constraints[1].numerator_index = last.tup[1]
        /\ last.constraints[1].denominator_index = last.tup[2]
        /\ last.constraints[1].lb = last.tup[3]
        /\ last.constraints[1].ub = last.tup[4]
        /\ Len(last.tup) = 4 => last.constraints[1].deviation = 0
        /\ (Len(last.tup) = 5 /\ last.tup[5] # NoBound) =>
              last.constraints[1].deviation = ValueOf(last.tup[5])

\* the size of a solution: the number of its active indicators
SolutionSize(sol) == Cardinality(ActiveIndicators(sol.x))
\* an advance of a solution iterator that yields after an earlier yield of
\* the same run (result holds the solution yielded before)
YieldsAgain == SolutionStep /\ sit.result # <<>> /\ last'.out # <<>>

\* C25 as stated: in a solution_iterator run, each yielded solution has at
\* least the size of the solution the run yielded before it
C25_SizesNonDecreasing ==
    [][YieldsAgain =>
        SolutionSize(sit.result[1]) <= SolutionSize(last'.out[1])]_vars

\* C25: in a solution_iterator run, a solution yielded by an advance that
\* directly follows the advance of the previous yield, no other operation
\* having acted on the enumerator in between, has at least the size of the
\* previous one
C25_SizesNonDecreasingAlone ==
    [][(YieldsAgain /\ last.op = "solution_iterator.next") =>
        SolutionSize(sit.result[1]) <= SolutionSize(last'.out[1])]_vars

\* a run by itself has yielded a solution of size 1 and then a larger one
C25_Witness ==
    /\ pit.pc = "none"
    /\ last.op = "solution_iterator.next"
    /\ sit.pc = "running" /\ sit.i = 2
    /\ Len(emitted) = 2
    /\ SolutionSize(emitted[1]) = 1
    /\ SolutionSize(emitted[2]) > 1
    /\ sit.result = <<emitted[2]>>

\* the run has ended because a solve returned no solution
Exhausted ==
    /\ sit.pc = "done"
    /\ last.op = "solution_iterator.next"
    /\ last.out = <<>>
    /\ last.solver # ""
\* the rows the solve of this advance reads: on the first advance those
\* left by the reset and set_size_constraint(1) of the generator body
RowsBeforeSolve ==
    IF sit.pc = "created"
    THEN SolutionIteratorStart(Problem, IVars(model)).rows
    ELSE rows
\* an advance of the solution iterator that yields a solution
Yields == SolutionStep /\ last'.out # <<>>
\* the nonempty sets of reactions that are active in some flux of the system
ActiveReactionSets ==
    {{r \in DOMAIN dvar_mapping : \E j \in DOMAIN dvar_mapping[r] : dvar_mapping[r][j] \in s} : s \in FluxSupports(model) \ {{}}}

IteratorCreated ==
    \/ sit' # sit /\ sit'.pc = "created" /\ last'.op = "solution_iterator"
    \/ pit' # pit /\ pit'.pc = "created" /\ last'.op = "population_iterator"
\* the first advance of a created generator
FirstAdvance ==
    \/ sit.pc = "created" /\ sit' # sit /\ last'.op = "solution_iterator.next"
    \/ pit.pc = "created" /\ pit' # pit /\ last'.op = "population_iterator.next"
\* the rows that are neither the size row nor recorded in the cut list
KeptRows == NotSizeRows(NotInCutList(rows))

\* C27: creating an iterator leaves the rows (the size row among them) and
\* the cut list as they are; the first advance of an iterator removes
\* every row recorded in the cut list at that moment, whoever added it: the
\* rows afterwards are the rows outside the cut list followed by one cut
\* per solution the advance returns, and the cut list holds these only
C27_ResetAtFirstAdvance ==
    [][/\ IteratorCreated => rows' = rows /\ integer_cuts' = integer_cuts
       /\ FirstAdvance =>
            /\ Len(integer_cuts') = Len(last'.out)
            /\ Len(NotSizeRows(rows')) = Len(KeptRows) + Len(last'.out)
            /\ SubSeq(NotSizeRows(rows'), 1, Len(KeptRows)) = KeptRows
            /\ \A n \in DOMAIN rows' :
                  rows'[n].id \in Range(integer_cuts') <=>
                      n > Len(rows') - Len(last'.out)]_vars

\* a population iterator has made its first advance, with an empty batch,
\* while a solution iterator that has yielded two solutions is in progress:
\* the cut list is empty
C27_Witness ==
    /\ last.op = "population_iterator.next"
    /\ last.out = <<>>
    /\ pit.pc = "running" /\ pit.i = 1
    /\ sit.pc = "running" /\ sit.i = 2
    /\ integer_cuts = <<>>

====
